---- MODULE Spec2Model ----
(***************************************************************************)
(* The maritime application core: the Maritime class (global middleware,   *)
(* mount, findRouteMatch, handleRequest) and the Route object              *)
(* (construction, match, rebaseRoute).                                     *)
(*                                                                         *)
(* A path string is a sequence of segments (<<"api", "info">> is           *)
(* "/api/info", <<>> is the empty string), so that string concatenation    *)
(* is \o.  A handler function is named by a string; a Router object is     *)
(* named by a string and its fields live in the variable routers.          *)
(***************************************************************************)
EXTENDS Integers, Sequences, FiniteSets, TLC

\* ------------------------------------------------------------------ bounds
MaxGlobal == 2
MaxMountMw == 2
MaxRebase == 2

\* ------------------------------------------------------------ value domains
\* Handlers registered with use().
GlobalHandlers == {"A", "B"}
\* Handlers given to mount() in front of the router, in call order.
MountHandlers == <<"M", "N", "O", "P">>
\* Base routes given to mount().
Bases == {<<"api">>}
\* Objects the application passes to mount(): R1 is an instance of the
\* maritime Router; F is a router-like object of another class (it has
\* every Router method but is no instance of the maritime Router); "plain"
\* is an object that has none of the Router methods.
RouterInstances == {"R1"}
RouterLike == {"R1", "F"}
MountTargets == {"R1", "F", "plain"}
\* Requests: stripped paths and methods arriving from the server.
ReqPaths == {<<>>, <<"info">>, <<"api", "info">>, <<"users", "42">>, <<"users", "7">>}
ReqMethods == {"GET", "POST"}
Requests == {"q1"}
\* Two requests in flight at once.
ServeRequests == {"q1", "q2"}
\* The keys of this.settings; a value is "undefined", "true" or "engine" (a
\* routing engine object).
SettingKeys == {"x-powered-by", "routing-engine"}
\* A Route object on its own: the patterns it is declared with, the bases it
\* is rebased with, the paths it is matched against.
RoutePatterns == {<<>>, <<"info">>, <<"users", ":id">>}
RebaseBases == {<<"api">>, <<"v1">>}
TestPaths == {<<>>, <<"info">>, <<"api", "info">>, <<"v1", "api", "info">>,
              <<"api", "v1", "info">>, <<"v1", "api", "users", "42">>}

VARIABLES
  globalMiddleware,   \* this.globalMiddleware: sequence of handlers
  mountedRouters,     \* this.mountedRouters: sequence of router objects
  routers,            \* the heap of router objects: middleware, routes, activated
  listening,          \* listen() has been called: the server delivers requests
  lastCall,           \* the last call of use/mount/listen and how it ended
  req,                \* per request: the data object and the position of its chain
  routeObj,           \* a Route object on its own, with what was done to it
  settings            \* this.settings: the value of each key

vars == <<globalMiddleware, mountedRouters, routers, listening, lastCall, req, routeObj, settings>>

\* ---------------------------------------------------------- path-to-regexp
\* A segment starting a named parameter.
IsParam(seg) == seg \in {":id"}

\* pathToRegexp(path, keys, options) with the default options: the matcher it
\* returns, one element per segment: a literal must be equal, a parameter
\* captures any one segment.
RegexOf(path) == [i \in 1..Len(path) |-> IF IsParam(path[i]) THEN "([^/]+)" ELSE path[i]]

\* The names pathToRegexp pushes onto the keys array it is given, left to right.
RECURSIVE KeysOf(_)
KeysOf(path) ==
  IF path = <<>> THEN <<>>
  ELSE (IF IsParam(Head(path)) THEN <<Head(path)>> ELSE <<>>) \o KeysOf(Tail(path))

\* pathToRegexp: the regex, and the keys array after the call (the names are
\* pushed onto the array that was passed in).
pathToRegexp(path, keys) == [regex |-> RegexOf(path), keys |-> keys \o KeysOf(path)]

\* regex.test(path)
RegexTest(regex, path) ==
  /\ Len(regex) = Len(path)
  /\ \A i \in 1..Len(regex) : regex[i] = "([^/]+)" \/ regex[i] = path[i]

\* -------------------------------------------------------------------- Route
\* function Route(methods, path, middleware, options)
Route(methods, path, middleware) ==
  LET c == pathToRegexp(path, <<>>)
  IN [methods |-> methods, path |-> path, middleware |-> middleware,
      parameters |-> c.keys, regex |-> c.regex]

\* Route.prototype.match
RouteMatch(route, path) == RegexTest(route.regex, path)

\* rebaseRoute without line 20 (this.parameters = []): pathToRegexp pushes
\* the names onto the list of the earlier compilation
rebaseRouteKeepKeys(route, routeBase) ==
  IF route.path # <<>>
  THEN LET p == routeBase \o route.path
           c == pathToRegexp(p, route.parameters)
       IN [route EXCEPT !.path = p, !.parameters = c.keys, !.regex = c.regex]
  ELSE route

\* Route.prototype.rebaseRoute
rebaseRoute(route, routeBase) ==
  IF route.path # <<>>
  THEN LET p == routeBase \o route.path
           c == pathToRegexp(p, <<>>)
       IN [route EXCEPT !.path = p, !.parameters = c.keys, !.regex = c.regex]
  ELSE route

\* ------------------------------------------------------------------- Router
\* Router.prototype.rebaseRouter: rebases every owned Route, returns the router.
rebaseRouter(router, base) ==
  [router EXCEPT !.routes = [i \in 1..Len(router.routes) |-> rebaseRoute(router.routes[i], base)],
                 !.bases = <<base>> \o @,
                 !.steps = Append(@, "rebaseRouter")]

\* Router.prototype.use(path, middleware) with path undefined: appends the
\* given handlers to the router's middleware.
routerUse(router, middleware) ==
  [router EXCEPT !.middleware = @ \o middleware,
                 !.steps = Append(@, "use")]

\* Router.prototype.applyRoutingEngine(engine): the router keeps the engine
\* its routes are matched with.
applyRoutingEngine(router, engine) ==
  [router EXCEPT !.engine = engine,
                 !.steps = Append(@, "applyRoutingEngine")]

\* Router.prototype.createRegex: activation; every route's matcher is
\* compiled from its current path.
createRegex(router) ==
  [router EXCEPT !.activated = TRUE,
                 !.steps = Append(@, "createRegex"),
                 !.routes = [i \in 1..Len(router.routes) |->
                    LET c == pathToRegexp(router.routes[i].path, <<>>)
                    IN [router.routes[i] EXCEPT !.parameters = c.keys, !.regex = c.regex]]]

\* method.toLowerCase()
toLowerCase(m) == CASE m = "GET" -> "get" [] m = "POST" -> "post" [] OTHER -> m

\* Router.prototype.findRoute(path, method): the index of the first owned
\* route, in declaration order, whose matcher accepts the path and whose
\* methods contain the method case-insensitively; 0 when there is none.
RECURSIVE findRouteFrom(_, _, _, _)
findRouteFrom(router, path, method, i) ==
  IF i > Len(router.routes) THEN 0
  ELSE IF /\ RouteMatch(router.routes[i], path)
          /\ method \in {toLowerCase(m) : m \in router.routes[i].methods}
       THEN i
       ELSE findRouteFrom(router, path, method, i + 1)

findRoute(router, path, method) == findRouteFrom(router, path, method, 1)

\* The routers as the application declares them, before any mount.
NewRouter(isInstance, middleware, routes) ==
  [instance |-> isInstance, middleware |-> middleware, routes |-> routes,
   activated |-> FALSE, bases |-> <<>>, original |-> [i \in 1..Len(routes) |-> routes[i].path],
   engine |-> "undefined", steps |-> <<>>]

InitRouters ==
  [r \in RouterLike |->
     CASE r = "R1" -> NewRouter(TRUE, <<"C">>,
                        << Route({"GET"}, <<"info">>, <<"D", "E">>),
                           Route({"GET", "POST"}, <<>>, <<>>) >>)
       [] OTHER    -> NewRouter(FALSE, <<>>,
                        << Route({"GET"}, <<"info">>, <<"E">>),
                           Route({"GET"}, <<"users", ":id">>, <<"D">>) >>)]

\* ----------------------------------------------------------- JS values
\* An argument value: its typeof, and the string, function or object it is.
StrArg(p) == [type |-> "string", str |-> p, fn |-> "", obj |-> ""]
FnArg(f) == [type |-> "function", str |-> <<>>, fn |-> f, obj |-> ""]
ObjArg(o) == [type |-> "object", str |-> <<>>, fn |-> "", obj |-> o]
Undefined == [type |-> "undefined", str |-> <<>>, fn |-> "", obj |-> ""]
BoolValue == [type |-> "boolean", str |-> <<>>, fn |-> "", obj |-> ""]

\* args[i] of a JS array (0-based), undefined past its end.
At(args, i) == IF i >= 0 /\ i < Len(args) THEN args[i + 1] ELSE Undefined

\* Array.prototype.slice(start, end): a negative index counts from the end.
Clamp(len, k) == IF k < 0 THEN (IF len + k < 0 THEN 0 ELSE len + k)
                 ELSE (IF k > len THEN len ELSE k)
Slice(args, start, end) == SubSeq(args, Clamp(Len(args), start) + 1, Clamp(Len(args), end))

\* !v is a boolean primitive; v instanceof maritimeRouter holds of the
\* objects built by the maritime Router constructor only.
Not(v) == BoolValue
InstanceOfRouter(v) == v.type = "object" /\ v.obj \in RouterInstances

\* The value has the Router methods mount calls on it.
HasRouterMethods(v) == v.type = "object" /\ v.obj \in RouterLike

\* ----------------------------------------------------------------- Maritime
NoCall == [op |-> "none", error |-> "none", arg |-> Undefined, args |-> <<>>,
           usePassed |-> FALSE, passed |-> <<>>]

\* use(middleware) without the check of its argument
UseAcceptsAny(middleware) == TRUE

\* use(middleware), lines 57-62
UseAccepts(middleware) == middleware.type = "function"

MaritimeUse(middleware) ==
  /\ IF ~UseAccepts(middleware)
     THEN /\ lastCall' = [NoCall EXCEPT !.op = "use", !.error = "UseError", !.arg = middleware]
          /\ UNCHANGED globalMiddleware
     ELSE /\ globalMiddleware' = Append(globalMiddleware, middleware.fn)
          /\ lastCall' = [NoCall EXCEPT !.op = "use", !.arg = middleware]
  /\ UNCHANGED <<mountedRouters, routers, listening, req, routeObj, settings>>

\* mount(...args), lines 71-93: the binding of baseRoute, middleware, router.
MountMiddlewareSlice(args, first) == Slice(args, first, Len(args) - 2)

ParseMountArgs(args) ==
  IF At(args, 0).type = "string"
  THEN [hasBase |-> TRUE, baseRoute |-> At(args, 0).str,
        hasMw |-> At(args, 1).type = "function",
        middleware |-> IF At(args, 1).type = "function"
                       THEN MountMiddlewareSlice(args, 1) ELSE <<>>,
        router |-> At(args, Len(args) - 1)]
  ELSE IF At(args, 0).type = "function"
  THEN [hasBase |-> FALSE, baseRoute |-> <<>>,
        hasMw |-> TRUE, middleware |-> MountMiddlewareSlice(args, 0),
        router |-> At(args, Len(args) - 1)]
  ELSE [hasBase |-> FALSE, baseRoute |-> <<>>,
        hasMw |-> FALSE, middleware |-> <<>>,
        router |-> At(args, 0)]

\* line 96: if (!router instanceof maritimeRouter) throw ...
MountRejects(router) == InstanceOfRouter(Not(router))

\* The handler names of an array of function values.
FnNames(seq) == [i \in 1..Len(seq) |-> seq[i].fn]

\* set(setting, val), lines 37-39, and get(setting), lines 47-49
MaritimeGet(setting) == settings[setting]

MaritimeSet(setting, val) ==
  /\ settings' = [settings EXCEPT ![setting] = val]
  /\ lastCall' = [NoCall EXCEPT !.op = "set"]
  /\ UNCHANGED <<globalMiddleware, mountedRouters, routers, listening, req, routeObj>>

\* if (routingEngine): the value is truthy
Truthy(val) == val # "undefined"

\* mount calling createRegex before it applies its options to the router
MountPrepareActivateFirst(router, b) ==
  LET r0 == createRegex(router)
      r1 == IF b.hasBase THEN rebaseRouter(r0, b.baseRoute) ELSE r0
      r2 == IF b.hasMw THEN routerUse(r1, FnNames(b.middleware)) ELSE r1
      routingEngine == MaritimeGet("routing-engine")
  IN IF Truthy(routingEngine) THEN applyRoutingEngine(r2, routingEngine) ELSE r2

\* lines 101-112: the router after rebaseRouter, use, applyRoutingEngine
\* and createRegex.
MountPrepare(router, b) ==
  LET r1 == IF b.hasBase THEN rebaseRouter(router, b.baseRoute) ELSE router
      r2 == IF b.hasMw THEN routerUse(r1, FnNames(b.middleware)) ELSE r1
      routingEngine == MaritimeGet("routing-engine")
      r3 == IF Truthy(routingEngine) THEN applyRoutingEngine(r2, routingEngine) ELSE r2
  IN createRegex(r3)

MaritimeMount(args) ==
  LET b == ParseMountArgs(args)
      call == [NoCall EXCEPT !.op = "mount", !.arg = At(args, Len(args) - 1), !.args = args]
  IN /\ IF MountRejects(b.router)
        THEN /\ lastCall' = [call EXCEPT !.error = "MountError"]
             /\ UNCHANGED <<mountedRouters, routers>>
        ELSE IF ~HasRouterMethods(b.router)
        THEN \* router.rebaseRouter / router.use / router.createRegex is not a function
             /\ lastCall' = [call EXCEPT !.error = "TypeError"]
             /\ UNCHANGED <<mountedRouters, routers>>
        ELSE /\ routers' = [routers EXCEPT ![b.router.obj] = MountPrepare(@, b)]
             /\ mountedRouters' = Append(mountedRouters, b.router.obj)
             /\ lastCall' = [call EXCEPT !.usePassed = b.hasMw,
                                         !.passed = FnNames(b.middleware)]
     /\ UNCHANGED <<globalMiddleware, listening, req, routeObj, settings>>

\* The calls of mount the application makes: an optional base route, k
\* handlers, then the value to mount.
MountArgs(base, k, target) ==
  base \o [i \in 1..k |-> FnArg(MountHandlers[i])] \o <<ObjArg(target)>>

\* The application sets itself up before it listens: it calls use at most
\* MaxGlobal times and mounts an object it has not mounted before.
Mount ==
  \E base \in {<<>>} \cup {<<StrArg(p)>> : p \in Bases}, k \in 0..MaxMountMw, target \in MountTargets :
    /\ ~listening
    /\ \A i \in 1..Len(mountedRouters) : mountedRouters[i] # target
    /\ MaritimeMount(MountArgs(base, k, target))

\* The application chooses its routing engine while it sets itself up.
Set ==
  \E val \in {"engine"} :
    /\ ~listening
    /\ MaritimeGet("routing-engine") # val
    /\ MaritimeSet("routing-engine", val)

Use ==
  \E m \in {FnArg(f) : f \in GlobalHandlers} \cup {StrArg(<<"info">>), ObjArg("plain")} :
    /\ ~listening
    /\ Len(globalMiddleware) < MaxGlobal
    /\ MaritimeUse(m)

\* listen(...), lines 209-241: the server starts to deliver requests to
\* handleServer's function.
Listen ==
  /\ ~listening
  /\ listening' = TRUE
  /\ lastCall' = [NoCall EXCEPT !.op = "listen"]
  /\ UNCHANGED <<globalMiddleware, mountedRouters, routers, req, routeObj, settings>>

\* findRouteMatch(path, method), lines 130-142: the scan of mountedRouters
\* from index i (1-based); consulted counts the routers whose findRoute
\* was called.
NoMatch == [found |-> FALSE, route |-> 0, router |-> "", index |-> 0, consulted |-> 0]

RECURSIVE findRouteMatchFrom(_, _, _)
findRouteMatchFrom(path, method, i) ==
  IF i > Len(mountedRouters) THEN [NoMatch EXCEPT !.consulted = Len(mountedRouters)]
  ELSE LET match == findRoute(routers[mountedRouters[i]], path, toLowerCase(method))
       IN IF match # 0
          THEN [found |-> TRUE, route |-> match, router |-> mountedRouters[i],
                index |-> i, consulted |-> i]
          ELSE findRouteMatchFrom(path, method, i + 1)

\* findRouteMatch without the return inside the loop: the last router
\* with a matching route wins.
RECURSIVE findRouteMatchLastFrom(_, _, _)
findRouteMatchLastFrom(path, method, i) ==
  IF i < 1 THEN [NoMatch EXCEPT !.consulted = Len(mountedRouters)]
  ELSE LET match == findRoute(routers[mountedRouters[i]], path, toLowerCase(method))
       IN IF match # 0
          THEN [found |-> TRUE, route |-> match, router |-> mountedRouters[i],
                index |-> i, consulted |-> Len(mountedRouters)]
          ELSE findRouteMatchLastFrom(path, method, i - 1)

findRouteMatchLast(path, method) == findRouteMatchLastFrom(path, method, Len(mountedRouters))

findRouteMatch(path, method) == findRouteMatchFrom(path, method, 1)

\* The params of a found route: the segments of the path the route's
\* parameters capture, by name, left to right.
RECURSIVE CaptureFrom(_, _, _)
CaptureFrom(route, path, i) ==
  IF i > Len(route.path) \/ i > Len(path) THEN <<>>
  ELSE (IF IsParam(route.path[i]) THEN << <<route.path[i], path[i]>> >> ELSE <<>>)
       \o CaptureFrom(route, path, i + 1)

RouteParams(route, path) == CaptureFrom(route, path, 1)

\* constructData(req, res), lines 172-196: the data object of one request;
\* the other fields are the position of the request's chain: the tier and
\* the compiled chain that is running, the index of the handler that was
\* invoked last, the invocations so far (log), the continuation calls so
\* far (nexts), the calls of findRouteMatch so far (resolves) and whether
\* the dispatch threw.
constructData(pathname, method) ==
  [pc |-> "idle", strippedPath |-> pathname, method |-> method,
   params |-> [bound |-> FALSE, map |-> <<>>],
   tier |-> "none", chain |-> <<>>, idx |-> 0,
   matched |-> FALSE, router |-> "", route |-> 0,
   log |-> <<>>, nexts |-> 0, resolves |-> 0, threw |-> FALSE, again |-> FALSE]

\* middlewareCompiler(list): the chain runs the handlers of the list as it
\* is at compilation.
middlewareCompiler(list) == list

\* The compiled chain called with (data, done): the first handler is
\* invoked; an empty chain calls done at once.
InvokeChain(st, tier, chain, done) ==
  IF chain = <<>> THEN done
  ELSE [st EXCEPT !.pc = "running", !.tier = tier, !.chain = chain, !.idx = 1,
                  !.log = Append(@, [tier |-> tier, id |-> chain[1]])]

\* The end of the route chain throwing, as a call of a continuation that
\* was not given would
FinishedThrows(st) == [st EXCEPT !.pc = "done", !.threw = TRUE]

\* The route chain is called without a continuation: nothing follows it.
Finished(st) == [st EXCEPT !.pc = "done"]

\* runRouteFuncs, lines 160-163
runRouteFuncs(st) ==
  InvokeChain(st, "route",
              middlewareCompiler(routers[st.router].routes[st.route].middleware),
              Finished(st))

\* executeRouteFuncs taking the middleware of the first mounted router
\* instead of the router returned with the match
executeRouteFuncsFirstRouter(st) ==
  LET matchData == findRouteMatch(st.strippedPath, st.method)
      st1 == [st EXCEPT !.resolves = @ + 1]
  IN IF matchData.found
     THEN LET route == routers[matchData.router].routes[matchData.route]
              st2 == [st1 EXCEPT !.params = [bound |-> TRUE,
                                            map |-> RouteParams(route, st.strippedPath)],
                                 !.matched = TRUE,
                                 !.router = matchData.router,
                                 !.route = matchData.route]
          IN InvokeChain(st2, "router",
                         middlewareCompiler(routers[mountedRouters[1]].middleware),
                         runRouteFuncs(st2))
     ELSE Finished(st1)

\* executeRouteFuncs calling runRouteFuncs itself after the router chain
\* instead of passing it as the chain's continuation
executeRouteFuncsEager(st) ==
  LET matchData == findRouteMatch(st.strippedPath, st.method)
      st1 == [st EXCEPT !.resolves = @ + 1]
  IN IF matchData.found
     THEN LET route == routers[matchData.router].routes[matchData.route]
              st2 == [st1 EXCEPT !.params = [bound |-> TRUE,
                                            map |-> RouteParams(route, st.strippedPath)],
                                 !.matched = TRUE,
                                 !.router = matchData.router,
                                 !.route = matchData.route]
          IN runRouteFuncs(InvokeChain(st2, "router",
                             middlewareCompiler(routers[matchData.router].middleware),
                             st2))
     ELSE Finished(st1)

\* executeRouteFuncs without the test of matchData: reading
\* matchData.route of an empty result throws.
executeRouteFuncsNoGuard(st) ==
  LET matchData == findRouteMatch(st.strippedPath, st.method)
      st1 == [st EXCEPT !.resolves = @ + 1]
  IN IF matchData.found
     THEN LET route == routers[matchData.router].routes[matchData.route]
              st2 == [st1 EXCEPT !.params = [bound |-> TRUE,
                                            map |-> RouteParams(route, st.strippedPath)],
                                 !.matched = TRUE,
                                 !.router = matchData.router,
                                 !.route = matchData.route]
          IN InvokeChain(st2, "router",
                         middlewareCompiler(routers[matchData.router].middleware),
                         runRouteFuncs(st2))
     ELSE [st1 EXCEPT !.pc = "done", !.threw = TRUE]

\* executeRouteFuncs without the assignment of data.req.params (line 155)
executeRouteFuncsNoParams(st) ==
  LET matchData == findRouteMatch(st.strippedPath, st.method)
      st1 == [st EXCEPT !.resolves = @ + 1]
  IN IF matchData.found
     THEN LET st2 == [st1 EXCEPT !.matched = TRUE,
                                 !.router = matchData.router,
                                 !.route = matchData.route]
          IN InvokeChain(st2, "router",
                         middlewareCompiler(routers[matchData.router].middleware),
                         runRouteFuncs(st2))
     ELSE Finished(st1)

\* executeRouteFuncs taking the params from the request that resolved
\* before and is still in flight, as bindings kept in one shared object would be
executeRouteFuncsSharedParams(st) ==
  LET matchData == findRouteMatch(st.strippedPath, st.method)
      st1 == [st EXCEPT !.resolves = @ + 1]
      others == {p \in DOMAIN req : req[p].pc = "running" /\ req[p].params.bound}
  IN IF matchData.found
     THEN LET route == routers[matchData.router].routes[matchData.route]
              st2 == [st1 EXCEPT !.params = IF others # {}
                                            THEN req[CHOOSE p \in others : TRUE].params
                                            ELSE [bound |-> TRUE,
                                                  map |-> RouteParams(route, st.strippedPath)],
                                 !.matched = TRUE,
                                 !.router = matchData.router,
                                 !.route = matchData.route]
          IN InvokeChain(st2, "router",
                         middlewareCompiler(routers[matchData.router].middleware),
                         runRouteFuncs(st2))
     ELSE Finished(st1)

\* executeRouteFuncs, lines 148-167
executeRouteFuncs(st) ==
  LET matchData == findRouteMatch(st.strippedPath, st.method)
      st1 == [st EXCEPT !.resolves = @ + 1]
  IN IF matchData.found
     THEN LET route == routers[matchData.router].routes[matchData.route]
              st2 == [st1 EXCEPT !.params = [bound |-> TRUE,
                                            map |-> RouteParams(route, st.strippedPath)],
                                 !.matched = TRUE,
                                 !.router = matchData.router,
                                 !.route = matchData.route]
          IN InvokeChain(st2, "router",
                         middlewareCompiler(routers[matchData.router].middleware),
                         runRouteFuncs(st2))
     ELSE Finished(st1)

\* handleRequest calling executeRouteFuncs itself after the global chain
\* instead of passing it as the chain's continuation
handleRequestEager(data) ==
  executeRouteFuncs(InvokeChain(data, "global", middlewareCompiler(globalMiddleware), data))

\* handleRequest calling executeRouteFuncs without running the global chain
handleRequestSkipGlobal(data) == executeRouteFuncs(data)

\* handleRequest(data), lines 144-170
handleRequest(data) ==
  InvokeChain(data, "global", middlewareCompiler(globalMiddleware),
              executeRouteFuncs(data))

\* The continuations, the router chain being called without one
OnCompleteNoRoute(st) ==
  CASE st.tier = "global" -> executeRouteFuncs(st)
    [] OTHER -> Finished(st)

\* The continuations, the route chain being given executeRouteFuncs: the
\* end of the route chain resolves the request again
OnCompleteReenter(st) ==
  CASE st.tier = "global" -> executeRouteFuncs(st)
    [] st.tier = "router" -> runRouteFuncs(st)
    [] OTHER -> executeRouteFuncs(st)

\* The continuation each compiled chain was called with (lines 162, 165, 169).
OnComplete(st) ==
  CASE st.tier = "global" -> executeRouteFuncs(st)
    [] st.tier = "router" -> runRouteFuncs(st)
    [] OTHER -> Finished(st)

\* The handler that was invoked last calls its continuation: the next
\* handler of the chain is invoked, or the chain's continuation after the
\* last one.
ChainNext(st) ==
  LET st1 == [st EXCEPT !.nexts = @ + 1]
  IN IF st.idx < Len(st.chain)
     THEN [st1 EXCEPT !.idx = @ + 1,
                      !.log = Append(@, [tier |-> st.tier, id |-> st.chain[st.idx + 1]])]
     ELSE OnComplete(st1)

\* handleServer's function with a handleRequest that takes the handlers off
\* this.globalMiddleware as it compiles them
HandleRequestConsuming(q) ==
  /\ listening
  /\ req[q].pc \in {"idle", "done", "stopped"}
  /\ \E pathname \in ReqPaths, method \in ReqMethods :
       req' = [req EXCEPT ![q] = handleRequest(constructData(pathname, method))]
  /\ globalMiddleware' = <<>>
  /\ UNCHANGED <<mountedRouters, routers, listening, lastCall, routeObj, settings>>

\* handleServer's function, lines 120-123: a request arrives.  A request
\* whose dispatch has ended may be followed by another; again records that
\* the new request repeats the path and method of one that ended unmatched.
HandleRequest(q) ==
  /\ listening
  /\ req[q].pc \in {"idle", "done", "stopped"}
  /\ \E pathname \in ReqPaths, method \in ReqMethods :
       LET data == [constructData(pathname, method) EXCEPT
                      !.again = /\ req[q].pc = "done"
                                /\ ~req[q].matched
                                /\ req[q].strippedPath = pathname
                                /\ req[q].method = method]
       IN req' = [req EXCEPT ![q] = handleRequest(data)]
  /\ UNCHANGED <<globalMiddleware, mountedRouters, routers, listening, lastCall, routeObj, settings>>

\* The running handler calls next().
CallNext(q) ==
  /\ req[q].pc = "running"
  /\ req' = [req EXCEPT ![q] = ChainNext(req[q])]
  /\ UNCHANGED <<globalMiddleware, mountedRouters, routers, listening, lastCall, routeObj, settings>>

\* The running handler returns for good without calling next().
Stop(q) ==
  /\ req[q].pc = "running"
  /\ req' = [req EXCEPT ![q].pc = "stopped"]
  /\ UNCHANGED <<globalMiddleware, mountedRouters, routers, listening, lastCall, routeObj, settings>>

\* A Route object on its own: new Route(methods, path, middleware), then
\* calls of rebaseRoute and match.  original is the pattern it was declared
\* with, bases the bases it was rebased with (the most recent first),
\* tested and accepted the last call of match and its result.
NewRouteObj(path) ==
  [route |-> Route({"GET"}, path, <<"D">>), original |-> path, bases |-> <<>>,
   matched |-> FALSE, tested |-> <<>>, accepted |-> FALSE]

RouteRebase ==
  \E base \in RebaseBases :
    /\ Len(routeObj.bases) < MaxRebase
    /\ routeObj' = [routeObj EXCEPT !.route = rebaseRoute(@, base),
                                    !.bases = <<base>> \o @,
                                    !.matched = FALSE, !.tested = <<>>, !.accepted = FALSE]
    /\ UNCHANGED <<globalMiddleware, mountedRouters, routers, listening, lastCall, req, settings>>

RouteTest ==
  \E path \in TestPaths :
    /\ routeObj' = [routeObj EXCEPT !.matched = TRUE, !.tested = path,
                                    !.accepted = RouteMatch(routeObj.route, path)]
    /\ UNCHANGED <<globalMiddleware, mountedRouters, routers, listening, lastCall, req, settings>>

\* The constructor, lines 20 and 27: this.settings after new Maritime() in
\* a development environment.
NewSettings == [k \in SettingKeys |-> IF k = "x-powered-by" THEN "true" ELSE "undefined"]

InitRoute ==
  /\ globalMiddleware = <<>>
  /\ mountedRouters = <<>>
  /\ routers = InitRouters
  /\ listening = FALSE
  /\ lastCall = NoCall
  /\ req = [q \in Requests |-> constructData(<<>>, "GET")]
  /\ routeObj \in {NewRouteObj(p) : p \in RoutePatterns}
  /\ settings = NewSettings

NextRoute == RouteRebase \/ RouteTest

SpecRoute == InitRoute /\ [][NextRoute]_vars

\* new Maritime(), lines 12-28, and the routers the application declares.
Init ==
  /\ globalMiddleware = <<>>
  /\ mountedRouters = <<>>
  /\ routers = InitRouters
  /\ listening = FALSE
  /\ lastCall = NoCall
  /\ req = [q \in Requests |-> constructData(<<>>, "GET")]
  /\ routeObj = NewRouteObj(<<"info">>)
  /\ settings = NewSettings

Dispatch == \E q \in DOMAIN req : HandleRequest(q)
Continue == \E q \in DOMAIN req : CallNext(q)
Halt == \E q \in DOMAIN req : Stop(q)

Next == Set \/ Use \/ Mount \/ Listen \/ Dispatch \/ Continue \/ Halt

Spec == Init /\ [][Next]_vars

\* An application that is set up and listening, with two requests in
\* flight: n handlers were given to use, R1 was mounted alone, then F behind
\* k handlers.
GlobalList(n) == [i \in 1..n |-> IF i % 2 = 1 THEN "A" ELSE "B"]

InitServe ==
  /\ settings = NewSettings
  /\ \E n \in 0..1, k \in 0..MaxMountMw :
       /\ globalMiddleware = GlobalList(n)
       /\ routers = [InitRouters EXCEPT
                       !["R1"] = MountPrepare(@, ParseMountArgs(MountArgs(<<>>, 0, "R1"))),
                       !["F"] = MountPrepare(@, ParseMountArgs(MountArgs(<<>>, k, "F")))]
  /\ mountedRouters = <<"R1", "F">>
  /\ listening = TRUE
  /\ lastCall = [NoCall EXCEPT !.op = "listen"]
  /\ req = [q \in ServeRequests |-> constructData(<<>>, "GET")]
  /\ routeObj = NewRouteObj(<<"info">>)

NextServe == Dispatch \/ Continue \/ Halt

SpecServe == InitServe /\ [][NextServe]_vars

\* -------------------------------------------------------------- properties
\* The handler names of a log, and the positions of a log taken by a tier.
Ids(log) == [i \in 1..Len(log) |-> log[i].id]
TierAt(log, tier) == {i \in 1..Len(log) : log[i].tier = tier}
Tagged(tier, list) == [i \in 1..Len(list) |-> [tier |-> tier, id |-> list[i]]]

\* The middleware of the router and of the route a request resolved to.
RouterMw(st) == routers[st.router].middleware
RouteMw(st) == routers[st.router].routes[st.route].middleware

\* C1: a request that matched a route and whose handlers all called their
\* continuation leaves the log G \o R \o T: the global list, then the matched
\* router's list, then the matched route's list, each in declaration order.
C1_MiddlewareOrder ==
  \A q \in Requests :
    (req[q].pc = "done" /\ req[q].matched) =>
      /\ Ids(req[q].log) = globalMiddleware \o RouterMw(req[q]) \o RouteMw(req[q])
      /\ req[q].log = Tagged("global", globalMiddleware)
                        \o Tagged("router", RouterMw(req[q]))
                        \o Tagged("route", RouteMw(req[q]))

\* A fully continuing request through two global handlers, a router handler
\* and two route handlers.
C1_Witness ==
  \E q \in Requests :
    /\ req[q].pc = "done" /\ req[q].matched
    /\ globalMiddleware = <<"A", "B">>
    /\ Ids(req[q].log) = <<"A", "B", "C", "D", "E">>

\* C2: in every execution, deferred or stopped ones included, route
\* resolution and every router-scope or route-scope invocation come after
\* every global handler was invoked, in order, and called its continuation.
C2_GlobalFirst ==
  \A q \in Requests :
    LET st == req[q]
        n == Len(globalMiddleware)
    IN (st.resolves > 0 \/ TierAt(st.log, "router") \cup TierAt(st.log, "route") # {}) =>
         /\ Len(st.log) >= n
         /\ SubSeq(st.log, 1, n) = Tagged("global", globalMiddleware)
         /\ st.nexts >= n
         /\ \A i \in TierAt(st.log, "router") \cup TierAt(st.log, "route") : i > n
         /\ st.resolves = 1

\* A router-scope handler is running after two global handlers.
C2_Witness ==
  \E q \in Requests :
    /\ req[q].pc = "running" /\ req[q].tier = "router"
    /\ Len(globalMiddleware) = 2

\* C3: no route-scope handler is invoked before every handler of the
\* matched router's list was invoked, in order, and called its
\* continuation; the router whose list runs is the one findRouteMatch
\* returned with the route.
C3_RouterBeforeRoute ==
  \A q \in Requests :
    LET st == req[q]
        n == Len(globalMiddleware)
        found == findRouteMatch(st.strippedPath, st.method)
    IN /\ (TierAt(st.log, "router") # {} \/ TierAt(st.log, "route") # {}) =>
            /\ st.matched
            /\ found.found /\ st.router = found.router /\ st.route = found.route
            /\ \A i \in TierAt(st.log, "router") :
                 /\ i - n \in 1..Len(RouterMw(st))
                 /\ st.log[i].id = RouterMw(st)[i - n]
       /\ TierAt(st.log, "route") # {} =>
            /\ Len(st.log) >= n + Len(RouterMw(st))
            /\ SubSeq(st.log, n + 1, n + Len(RouterMw(st))) = Tagged("router", RouterMw(st))
            /\ st.nexts >= n + Len(RouterMw(st))
            /\ \A i \in TierAt(st.log, "route") : i > n + Len(RouterMw(st))

\* A route-scope handler is running for a route of the second mounted
\* router, whose middleware differs from the first one's.
C3_Witness ==
  \E q \in Requests :
    /\ req[q].pc = "running" /\ req[q].tier = "route"
    /\ Len(mountedRouters) = 2
    /\ req[q].router = mountedRouters[2]
    /\ routers[mountedRouters[1]].middleware # routers[mountedRouters[2]].middleware
    /\ RouterMw(req[q]) # <<>>

\* C4: a handler that returned without calling its continuation is the
\* last invocation of its request: the log ends with it, every earlier
\* handler continued once, no later tier was entered (a stopped global
\* handler: no resolution, no router or route invocation; a stopped router
\* handler: no route invocation), and no later step of the request adds to it.
C4_StoppedState(st) ==
  LET n == Len(globalMiddleware)
  IN st.pc = "stopped" =>
       /\ st.log # <<>>
       /\ st.log[Len(st.log)] = [tier |-> st.tier, id |-> st.chain[st.idx]]
       /\ st.nexts = Len(st.log) - 1
       /\ st.tier = "global" =>
            /\ Len(st.log) = st.idx /\ st.resolves = 0
            /\ TierAt(st.log, "router") \cup TierAt(st.log, "route") = {}
       /\ st.tier = "router" =>
            /\ Len(st.log) = n + st.idx
            /\ TierAt(st.log, "route") = {}
       /\ st.tier = "route" => Len(st.log) = n + Len(RouterMw(st)) + st.idx

C4_ShortCircuit ==
  /\ [](\A q \in Requests : C4_StoppedState(req[q]))
  /\ [][\A q \in Requests :
          req[q].pc = "stopped" => (req'[q] = req[q] \/ req'[q].nexts = 0)]_vars

\* The first of two global handlers stopped, a router being mounted whose
\* route matches the request.
C4_Witness ==
  \E q \in Requests :
    /\ req[q].pc = "stopped" /\ req[q].tier = "global" /\ req[q].idx = 1
    /\ Len(globalMiddleware) = 2
    /\ findRouteMatch(req[q].strippedPath, req[q].method).found

\* C5: mounting a value that is no maritime Router fails with the mount
\* type error, whatever the call shape, and mountedRouters holds maritime
\* Routers only.
C5_MountRejectsNonRouter ==
  /\ (lastCall.op = "mount" /\ ~InstanceOfRouter(lastCall.arg)) => lastCall.error = "MountError"
  /\ \A i \in 1..Len(mountedRouters) : routers[mountedRouters[i]].instance

\* The handlers of a call of mount: the function arguments in front of the
\* last argument.
Supplied(args) ==
  FnNames(SelectSeq(SubSeq(args, 1, Len(args) - 1), LAMBDA a : a.type = "function"))

\* C6: a call of mount with handlers m1..mk, k >= 1, in front of the router
\* passes exactly m1..mk, in that order, to the router's use; the last
\* argument is the router that is mounted and a leading string its base.
C6_MountPassesAllHandlers ==
  (lastCall.op = "mount" /\ lastCall.error = "none") =>
    /\ mountedRouters # <<>>
    /\ mountedRouters[Len(mountedRouters)] = lastCall.arg.obj
    /\ lastCall.args[1].type = "string" =>
         /\ routers[lastCall.arg.obj].bases # <<>>
         /\ Head(routers[lastCall.arg.obj].bases) = lastCall.args[1].str
    /\ Supplied(lastCall.args) # <<>> =>
         /\ lastCall.usePassed
         /\ lastCall.passed = Supplied(lastCall.args)

\* The mounted routers that have a route for a path and method.
Hits(path, method) ==
  {i \in 1..Len(mountedRouters) :
     findRoute(routers[mountedRouters[i]], path, toLowerCase(method)) # 0}

Least(S) == CHOOSE i \in S : \A j \in S : i <= j

\* C7: findRouteMatch returns the route and the router of the first mounted
\* router, in mount order, that has a route for the path and method, and
\* consults no router after it; the result is empty when no router has
\* one.  A request that resolved holds that router and route.
C7_FirstMountedRouterWins ==
  /\ \A path \in ReqPaths, method \in ReqMethods :
       LET found == findRouteMatch(path, method)
           hits == Hits(path, method)
       IN IF hits = {}
          THEN ~found.found
          ELSE /\ found.found
               /\ found.index = Least(hits)
               /\ found.router = mountedRouters[Least(hits)]
               /\ found.route = findRoute(routers[found.router], path, toLowerCase(method))
               /\ found.consulted = Least(hits)
  /\ \A q \in Requests :
       req[q].matched =>
         /\ req[q].router = mountedRouters[Least(Hits(req[q].strippedPath, req[q].method))]
         /\ req[q].route = findRoute(routers[req[q].router], req[q].strippedPath,
                                     toLowerCase(req[q].method))

\* A request resolved while two different mounted routers have a route for it.
C7_Witness ==
  \E q \in Requests :
    /\ req[q].matched
    /\ Hits(req[q].strippedPath, req[q].method) = {1, 2}
    /\ mountedRouters[1] # mountedRouters[2]

\* C8: a dispatch that no mounted router resolves ends without throwing,
\* having invoked the global handlers only, leaves req.params unbound, and
\* no step of it changes globalMiddleware, mountedRouters or a router or
\* route; a second dispatch of the same path and method ends the same way.
C8_Unmatched(st) ==
  (st.pc = "done" /\ ~st.matched) =>
    /\ ~st.threw
    /\ ~findRouteMatch(st.strippedPath, st.method).found
    /\ st.resolves = 1
    /\ st.log = Tagged("global", globalMiddleware)
    /\ ~st.params.bound
    /\ st.router = "" /\ st.route = 0

C8_NoMatchIdempotent ==
  /\ [](\A q \in Requests : ~req[q].threw /\ C8_Unmatched(req[q]))
  /\ [][(\E q \in Requests : req'[q] # req[q] /\ ~req'[q].matched) =>
          UNCHANGED <<globalMiddleware, mountedRouters, routers>>]_vars

\* The second of two unmatched dispatches of the same path and method has
\* ended, with global handlers and two routers in place.
C8_Witness ==
  \E q \in Requests :
    /\ req[q].pc = "done" /\ ~req[q].matched /\ req[q].again
    /\ globalMiddleware # <<>>
    /\ Len(mountedRouters) = 2

\* C9: use fails on an argument that is no function and leaves
\* globalMiddleware as it was; a function is appended as the last element,
\* the earlier ones keeping their places; globalMiddleware holds functions only.
C9_UseAppendsFunctions ==
  /\ [](/\ \A i \in 1..Len(globalMiddleware) : globalMiddleware[i] \in GlobalHandlers
        /\ lastCall.op = "use" =>
             IF lastCall.arg.type = "function"
             THEN /\ lastCall.error = "none"
                  /\ globalMiddleware # <<>>
                  /\ globalMiddleware[Len(globalMiddleware)] = lastCall.arg.fn
             ELSE lastCall.error = "UseError")
  /\ [][/\ (lastCall'.op = "use" /\ lastCall'.error # "none") =>
             globalMiddleware' = globalMiddleware
        /\ globalMiddleware' # globalMiddleware =>
             /\ lastCall'.op = "use" /\ lastCall'.arg.type = "function"
             /\ globalMiddleware' = Append(globalMiddleware, lastCall'.arg.fn)]_vars

\* A call of use with a string failed after a function was registered.
C9_Witness ==
  /\ lastCall.op = "use" /\ lastCall.error = "UseError"
  /\ globalMiddleware = <<"A">>

\* The concatenation of the bases a route was rebased with, the most
\* recent in front.
RECURSIVE Prefix(_)
Prefix(bases) == IF bases = <<>> THEN <<>> ELSE Head(bases) \o Prefix(Tail(bases))

\* C10: rebases compound with the most recent base in front: after
\* rebaseRoute(b1) then rebaseRoute(b2) the path is b2 + b1 + the original
\* pattern and the matcher is the one of that path; /info rebased with /api
\* then /v1 accepts /v1/api/info and rejects /api/info and /info.
C10_RebaseCompounds ==
  /\ Len(routeObj.bases) = 2 =>
       routeObj.route.path = routeObj.bases[1] \o routeObj.bases[2] \o routeObj.original
  /\ (Len(routeObj.bases) = 2 /\ routeObj.matched) =>
       routeObj.accepted = RegexTest(RegexOf(Prefix(routeObj.bases) \o routeObj.original),
                                     routeObj.tested)
  /\ (routeObj.original = <<"info">> /\ routeObj.bases = << <<"v1">>, <<"api">> >>
        /\ routeObj.matched) =>
       /\ routeObj.tested = <<"v1", "api", "info">> => routeObj.accepted
       /\ routeObj.tested \in {<<"api", "info">>, <<"info">>} => ~routeObj.accepted
\* The route a request resolved to.
RouteOf(st) == routers[st.router].routes[st.route]

\* The names and the values of a list of bindings.
Names(map) == [i \in 1..Len(map) |-> map[i][1]]
Values(map) == [i \in 1..Len(map) |-> map[i][2]]

\* The positions of a pattern that are parameters, left to right.
RECURSIVE ParamPositions(_, _)
ParamPositions(path, i) ==
  IF i > Len(path) THEN <<>>
  ELSE (IF IsParam(path[i]) THEN <<i>> ELSE <<>>) \o ParamPositions(path, i + 1)

\* C11: once a request resolved to a route, and so whenever a router or
\* route handler has been invoked for it, req.params is bound; its names are
\* the parameter names of the matched route, in order, and each value is the
\* segment of this request's own path at the parameter's position (pattern
\* /users/:id and path /users/42 give id = 42); a request that did not
\* resolve has no bindings.
C11_ParamsOf(st) ==
  LET pos == ParamPositions(RouteOf(st).path, 1)
  IN /\ st.params.bound
     /\ Names(st.params.map) = RouteOf(st).parameters
     /\ Values(st.params.map) = [i \in 1..Len(pos) |-> st.strippedPath[pos[i]]]
     /\ (RouteOf(st).path = <<"users", ":id">> /\ st.strippedPath = <<"users", "42">>)
          => st.params.map = << <<":id", "42">> >>

StepRank(step) ==
  CASE step = "rebaseRouter" -> 1
    [] step = "use" -> 2
    [] step = "applyRoutingEngine" -> 3
    [] OTHER -> 4

\* The Router methods a call of mount with these arguments has to make.
StepsOf(call) ==
  (IF At(call.args, 0).type = "string" THEN <<"rebaseRouter">> ELSE <<>>)
  \o (IF call.usePassed THEN <<"use">> ELSE <<>>)
  \o (IF settings["routing-engine"] # "undefined" THEN <<"applyRoutingEngine">> ELSE <<>>)
  \o <<"createRegex">>

\* C12: every router in mountedRouters is activated, createRegex was the
\* last Router method called on it, and the methods were called in the order
\* rebaseRouter, use, applyRoutingEngine, createRegex; the router a call of
\* mount has just appended went through exactly the steps its arguments and
\* the routing-engine setting ask for, and a router that is not mounted was
\* not touched.
C12_MountedRoutersActivated ==
  /\ \A i \in 1..Len(mountedRouters) :
       LET r == routers[mountedRouters[i]]
       IN /\ r.activated
          /\ r.steps # <<>>
          /\ r.steps[Len(r.steps)] = "createRegex"
          /\ \A j, k \in 1..Len(r.steps) : j < k => StepRank(r.steps[j]) < StepRank(r.steps[k])
  /\ (lastCall.op = "mount" /\ lastCall.error = "none") =>
       /\ mountedRouters # <<>>
       /\ mountedRouters[Len(mountedRouters)] = lastCall.arg.obj
       /\ routers[lastCall.arg.obj].steps = StepsOf(lastCall)
  /\ \A r \in DOMAIN routers :
       (\A i \in 1..Len(mountedRouters) : mountedRouters[i] # r) => routers[r].steps = <<>>

\* A router was mounted with a base route and handlers while a routing
\* engine was set: all four methods were called on it.
C12_Witness ==
  /\ lastCall.op = "mount"
  /\ lastCall.error = "none"
  /\ routers[lastCall.arg.obj].steps = <<"rebaseRouter", "use", "applyRoutingEngine", "createRegex">>
  /\ routers[lastCall.arg.obj].bases # <<>>
  /\ routers[lastCall.arg.obj].engine = "engine"
\* C13: a call of rebaseRoute(b) leaves the route with the path b followed
\* by its previous path, whatever that path was (the empty pattern too),
\* with the matcher and the parameter names compiled from the new path, and
\* with the methods and the middleware it had.
C13_RebasePrependsAndRebuilds ==
  [][routeObj'.bases # routeObj.bases =>
       LET b == Head(routeObj'.bases)
           p == b \o routeObj.route.path
       IN /\ routeObj'.route.path = p
          /\ routeObj'.route.regex = RegexOf(p)
          /\ routeObj'.route.parameters = KeysOf(p)
          /\ routeObj'.route.methods = routeObj.route.methods
          /\ routeObj'.route.middleware = routeObj.route.middleware]_vars
\* C14: at every moment a Route's regex and its parameter names are the
\* ones pathToRegexp gives for its current path, so the list of names holds
\* one name per parameter of the current path and none of an earlier
\* compilation; the answer of match(path) is the answer of the matcher of
\* the current path.
C14_MatcherConsistent ==
  LET route == routeObj.route
  IN /\ route.regex = RegexOf(route.path)
     /\ route.parameters = KeysOf(route.path)
     /\ Len(route.parameters) = Cardinality({i \in 1..Len(route.path) : IsParam(route.path[i])})
     /\ routeObj.matched =>
          routeObj.accepted = RegexTest(RegexOf(route.path), routeObj.tested)

\* A parameterised route was rebased twice and then accepted a path under
\* both bases.
C14_Witness ==
  /\ routeObj.original = <<"users", ":id">>
  /\ Len(routeObj.bases) = 2
  /\ routeObj.route.path = <<"v1", "api", "users", ":id">>
  /\ routeObj.matched
  /\ routeObj.accepted
  /\ routeObj.tested = <<"v1", "api", "users", "42">>
AloneLog(st) ==
  LET m == findRouteMatch(st.strippedPath, st.method)
  IN Tagged("global", globalMiddleware)
       \o (IF m.found
           THEN Tagged("router", routers[m.router].middleware)
                  \o Tagged("route", routers[m.router].routes[m.route].middleware)
           ELSE <<>>)

\* C17: with two requests in flight, the invocations of each request are
\* at every moment an initial part of what the request gives when it is
\* dispatched alone, and all of it once its dispatch is done; every
\* invocation but the first follows a continuation call of the handler
\* invoked before it, so that one handler of the request is active at a
\* time: the one invoked last.
C17_OrderOf(st) ==
  /\ Len(st.log) <= Len(AloneLog(st))
  /\ st.log = SubSeq(AloneLog(st), 1, Len(st.log))
  /\ st.pc = "done" => st.log = AloneLog(st) /\ st.nexts = Len(st.log)
  /\ st.pc \in {"running", "stopped"} =>
       /\ st.log # <<>>
       /\ st.nexts = Len(st.log) - 1
       /\ st.log[Len(st.log)] = [tier |-> st.tier, id |-> st.chain[st.idx]]
  /\ st.matched => LET m == findRouteMatch(st.strippedPath, st.method)
                   IN m.found /\ m.router = st.router /\ m.route = st.route

C17_OrderUnderInterleaving ==
  \A q \in DOMAIN req : req[q].pc # "idle" => C17_OrderOf(req[q])

\* One request is inside a route handler after two continuation calls while
\* the other, for another path, is inside a global handler.
C17_Witness ==
  /\ req["q1"].pc = "running" /\ req["q1"].tier = "route" /\ req["q1"].nexts >= 2
  /\ req["q2"].pc = "running" /\ req["q2"].tier = "global"
  /\ req["q1"].strippedPath # req["q2"].strippedPath
\* C18: a step of a request (its dispatch, with or without a match, or a
\* continuation call) leaves globalMiddleware, mountedRouters and every
\* router with its routes as they were; globalMiddleware changes only in a
\* call of use, by one handler appended; mountedRouters changes only in a
\* call of mount, by one router appended; a router changes only in a call
\* of mount.
C18_ReadOnlyAfterActivation ==
  [][/\ req' # req => UNCHANGED <<globalMiddleware, mountedRouters, routers>>
     /\ globalMiddleware' # globalMiddleware =>
          /\ lastCall'.op = "use"
          /\ globalMiddleware' = Append(globalMiddleware, lastCall'.arg.fn)
     /\ mountedRouters' # mountedRouters =>
          /\ lastCall'.op = "mount"
          /\ mountedRouters' = Append(mountedRouters, lastCall'.arg.obj)
     /\ routers' # routers =>
          /\ lastCall'.op = "mount"
          /\ \A r \in DOMAIN routers : routers'[r] # routers[r] => r = lastCall'.arg.obj
    ]_vars

\* Two global handlers and two mounted routers are in place, and a request
\* that matched a route has run to its end.
C18_Witness ==
  \E q \in DOMAIN req :
    /\ Len(globalMiddleware) = 2
    /\ Len(mountedRouters) = 2
    /\ req[q].pc = "done"
    /\ req[q].matched
    /\ Len(req[q].log) >= 4
\* The order of the tiers, and the list a tier of a request runs.
TierRank(tier) == CASE tier = "global" -> 1 [] tier = "router" -> 2 [] OTHER -> 3
TierList(st, tier) ==
  CASE tier = "global" -> globalMiddleware
    [] tier = "router" -> RouterMw(st)
    [] OTHER -> RouteMw(st)

\* C19: in one dispatch the route is resolved at most once; the tiers
\* appear in the log in one block each, in the order global, router, route,
\* so none is entered twice; and the k-th invocation of a tier is the k-th
\* handler of the tier's list, so every handler of a list (a function that
\* is registered twice counting twice) is invoked at most once.
C19_AtMostOnce ==
  \A q \in DOMAIN req :
    LET st == req[q]
    IN /\ st.resolves <= 1
       /\ st.nexts <= Len(st.log)
       /\ \A i, j \in 1..Len(st.log) :
            i < j => TierRank(st.log[i].tier) <= TierRank(st.log[j].tier)
       /\ \A tier \in {"global", "router", "route"} :
            LET at == TierAt(st.log, tier)
            IN at # {} =>
                 /\ tier # "global" => st.matched
                 /\ Cardinality(at) <= Len(TierList(st, tier))
                 /\ \A i \in at :
                      st.log[i].id = TierList(st, tier)[Cardinality({j \in at : j <= i})]

\* A request ran through all three tiers, the global list holding the same
\* function twice, and was resolved once.
C19_Witness ==
  \E q \in DOMAIN req :
    /\ req[q].pc = "done"
    /\ req[q].matched
    /\ req[q].resolves = 1
    /\ globalMiddleware = <<"A", "A">>
    /\ TierAt(req[q].log, "global") = {1, 2}
    /\ TierAt(req[q].log, "router") # {}
    /\ TierAt(req[q].log, "route") # {}
====
